---- MODULE Spec2Model ----
(***************************************************************************)
(* RemoteAddonDom (src/src/index.ts): a registry of DOM elements driven by *)
(* remote commands.  The DOM is modelled as far as the handlers use it:    *)
(* element children, the id attribute, the text a node holds, the native   *)
(* listeners attached to a node, and the exceptions that appendChild and   *)
(* the call of a non-function raise.  An exception leaves a handler at the *)
(* statement that raised it: nothing in the addon or in the dispatcher     *)
(* (RemoteDom._handleMessage) catches it.                                  *)
(***************************************************************************)
EXTENDS Integers, Sequences, FiniteSets, TLC

\* ------------------------------------------------------------------ bounds

\* Elements that create-dom may create in one run.
MaxNodes == 2

\* ------------------------------------------------------------ value domains

\* The elements createDom can create, numbered in order of creation.
Created == 1..MaxNodes
\* document.documentElement, the parent of document.body.
HtmlNode == 0 - 2
\* document.body.
BodyNode == 0 - 1
Nodes == {HtmlNode, BodyNode} \cup Created

\* Identifier strings a controller uses.
Ids == {"a", "b"}
BodyKey == "body"
\* JavaScript null as an attribute value (it is no string).
Null == "<null>"
\* A field the command does not carry (undefined).
Absent == "<absent>"

\* Event types and the classes of the native events the browser dispatches.
Events == {"click", "focus"}
EventKinds == {"mouse", "wheel", "input", "other"}
\* Client coordinates of the pointer events the model dispatches.
Points == {<<10, 20>>, <<20, 10>>}
\* Tags create-dom is sent with.
Elements == {"div"}
\* Correlation tokens of reply-bearing commands.
ReplyIds == {"r1", "r2"}

\* ------------------------------------------------------------------- state

VARIABLES
  elementMap,        \* the registry: a Map from key to element
  elementListeners,  \* element -> the event types its Map holds a listener for
  nativeListeners,   \* element -> event type -> listeners attached by addEventListener
  idAttr,            \* element -> its id attribute (element.id), "" when it has none
  children,          \* element -> its element children, in document order
  textOf,            \* element -> the text of its own text node, "" when it has none
  tagOf,             \* element -> the tag it was created with
  nextEl,            \* the number of the next element createElement returns
  isOpen,            \* the connector is open: handleOpen ran and handleClose did not
  errors,            \* remote.sendError calls of the last handler
  replies,           \* remote.reply calls of the last handler
  messages,          \* remote.sendMessage calls of the last handler
  threw,             \* the last handler ended in an uncaught exception
  last,              \* the command or event handled last, with what it found
  declParent,        \* history: element -> the element its creation declared as parent
  sent,              \* history: the replyId tokens commands have carried
  replyCount,        \* history: replyId -> reply frames sent with it
  inbox,             \* message events of the connector waiting on the host's event loop
  arrived,           \* the number of frames the connector has delivered
  log                \* history: the handlers started and ended, in order

vars == <<elementMap, elementListeners, nativeListeners, idAttr, children, textOf,
          tagOf, nextEl, isOpen, errors, replies, messages, threw, last,
          declParent, sent, replyCount, inbox, arrived, log>>

\* The state a handler works on, as one record.
Store ==
  [map |-> elementMap, tab |-> elementListeners, nat |-> nativeListeners,
   idAttr |-> idAttr, kids |-> children, text |-> textOf, tag |-> tagOf,
   next |-> nextEl, errs |-> <<>>, reps |-> <<>>, msgs |-> <<>>,
   threw |-> FALSE, ret |-> HtmlNode, val |-> <<"undef">>,
   declParent |-> declParent]

\* ------------------------------------------------------------ DOM helpers

\* elementMap.get(key): the element, or nothing.
Lookup(map, key) == IF key \in DOMAIN map THEN {map[key]} ELSE {}

\* elementMap.set(key, el)
MapSet(map, key, el) ==
  [k \in DOMAIN map \cup {key} |-> IF k = key THEN el ELSE map[k]]

\* elementMap.delete(key)
MapDelete(map, key) == [k \in DOMAIN map \ {key} |-> map[k]]

\* element.parentElement
ParentOf(kids, n) ==
  {p \in Nodes : \E i \in 1..Len(kids[p]) : kids[p][i] = n}

Without(seq, n) == SelectSeq(seq, LAMBDA c : c # n)

\* element.remove(): detaches the element from its parent.
Detach(kids, n) == [p \in Nodes |-> Without(kids[p], n)]

RECURSIVE Descendants(_, _)
\* The elements below n.
Descendants(kids, n) ==
  LET direct == {kids[n][i] : i \in 1..Len(kids[n])}
  IN  direct \cup UNION {Descendants(kids, c) : c \in direct}

\* parent.appendChild(el) raises HierarchyRequestError when el is parent or
\* contains it.
AppendThrows(kids, parent, el) ==
  parent = el \/ parent \in Descendants(kids, el)

\* parent.appendChild(el): el leaves its old parent and becomes the last child.
AppendChild(kids, parent, el) ==
  LET k == Detach(kids, el)
  IN  [k EXCEPT ![parent] = Append(@, el)]

\* element.innerText = s: every child is replaced by one text node (none for "").
SetInnerText(st, el, s) ==
  [st EXCEPT !.kids[el] = <<>>, !.text[el] = s]

\* ---------------------------------------------------------- Event Bridge

\* A listenEvent that attaches a listener without consulting the element's Map.
listenEventUnchecked(st, el, event) ==
  [st EXCEPT !.tab[el] = @ \cup {event}, !.nat[el][event] = @ + 1]

\* listenEvent: attaches a new listener unless the element's Map has the event.
listenEvent(st, el, event) ==
  IF event \in st.tab[el]
  THEN st
  ELSE [st EXCEPT !.tab[el] = @ \cup {event}, !.nat[el][event] = @ + 1]

\* A stopListenEvent that forgets removeEventListener.
stopListenEventKeepsNative(st, el, event) ==
  IF event \in st.tab[el]
  THEN [st EXCEPT !.tab[el] = @ \ {event}]
  ELSE st

\* stopListenEvent: removes the listener the element's Map holds for the event.
stopListenEvent(st, el, event) ==
  IF event \in st.tab[el]
  THEN [st EXCEPT !.tab[el] = @ \ {event},
                  !.nat[el][event] = IF @ > 0 THEN @ - 1 ELSE 0]
  ELSE st

RECURSIVE ListenAll(_, _, _)
\* cmd.listenEvents.forEach(listenEvent)
ListenAll(st, el, events) ==
  IF events = <<>> THEN st
  ELSE ListenAll(listenEvent(st, el, Head(events)), el, Tail(events))

RECURSIVE StopAll(_, _, _)
\* cmd.stopListenEvents.forEach(stopListenEvent)
StopAll(st, el, events) ==
  IF events = <<>> THEN st
  ELSE StopAll(stopListenEvent(st, el, Head(events)), el, Tail(events))

\* --------------------------------------------------------------- createDom

\* The attributes loop of createDom, for the one key the registry reads: id.
CreateAttributes(st, el, value) ==
  IF value = Absent THEN st
  ELSE LET s1 == IF value # Null THEN [st EXCEPT !.idAttr[el] = value] ELSE st
       IN  IF value \in DOMAIN s1.map
           THEN [s1 EXCEPT !.errs = Append(@, <<"duplicate-id", value>>)]
           ELSE [s1 EXCEPT !.map = MapSet(@, value, el)]

\* An attachment that leaves every independent element unattached, also when
\* a parent is given.
CreateAttachUnlessIndependent(st, el, cmd) ==
  IF ~cmd.independent
  THEN LET key == IF cmd.parent # Absent THEN cmd.parent ELSE BodyKey
           found == Lookup(st.map, key)
           s1 == IF cmd.parent # Absent
                 THEN [st EXCEPT !.declParent[el] = found] ELSE st
       IN  IF found = {} THEN s1
           ELSE LET parent == CHOOSE p \in found : TRUE
                IN  IF AppendThrows(s1.kids, parent, el)
                    THEN [s1 EXCEPT !.threw = TRUE]
                    ELSE [s1 EXCEPT !.kids = AppendChild(@, parent, el)]
  ELSE st

\* if (cmd.parent || !cmd.independent) elementMap.get(cmd.parent || "body")?.appendChild(el)
CreateAttach(st, el, cmd) ==
  IF cmd.parent # Absent \/ ~cmd.independent
  THEN LET key == IF cmd.parent # Absent THEN cmd.parent ELSE BodyKey
           found == Lookup(st.map, key)
           s1 == IF cmd.parent # Absent
                 THEN [st EXCEPT !.declParent[el] = found] ELSE st
       IN  IF found = {} THEN s1
           ELSE LET parent == CHOOSE p \in found : TRUE
                IN  IF AppendThrows(s1.kids, parent, el)
                    THEN [s1 EXCEPT !.threw = TRUE]
                    ELSE [s1 EXCEPT !.kids = AppendChild(@, parent, el)]
  ELSE st

\* el.innerText = cmd.textContent || ""
CreateText(st, el, cmd) ==
  SetInnerText(st, el, IF cmd.textContent = Absent THEN "" ELSE cmd.textContent)

RECURSIVE createDom(_, _)
RECURSIVE CreateChildren(_, _, _)

\* for (let child of cmd.children) el.appendChild(createDom(child, remote))
CreateChildren(st, el, cmds) ==
  IF cmds = <<>> \/ st.threw THEN st
  ELSE LET s1 == createDom(st, Head(cmds))
       IN  IF s1.threw THEN s1
           ELSE CreateChildren(
                  [s1 EXCEPT !.kids = AppendChild(@, el, s1.ret),
                             !.declParent[s1.ret] = {el}],
                  el, Tail(cmds))

\* createDom(cmd, remote): st.ret is the element it returns.
createDom(st, cmd) ==
  LET el == st.next
      s0 == [st EXCEPT !.next = @ + 1, !.tag[el] = cmd.element]
      s1 == CreateAttributes(s0, el, cmd.attrId)
      s2 == CreateChildren(s1, el, cmd.children)
      s3 == CreateAttach(s2, el, cmd)
      s4 == ListenAll(s3, el, cmd.listenEvents)
      s5 == CreateText(s4, el, cmd)
  IN  IF s2.threw THEN s2
      ELSE IF s3.threw THEN s3
      ELSE [s5 EXCEPT !.ret = el]

\* --------------------------------------------------------------- removeDom

RECURSIVE remove(_, _)
RECURSIVE RemoveChildren(_, _)

\* while (element.children.length) remove(element.children[0])
RemoveChildren(st, element) ==
  IF st.kids[element] = <<>> THEN st
  ELSE RemoveChildren(remove(st, Head(st.kids[element])), element)

\* remove(element): element.remove(); elementMap.delete(element.id); children.
remove(st, element) ==
  LET s1 == [st EXCEPT !.kids = Detach(@, element)]
      s2 == [s1 EXCEPT !.map = MapDelete(@, s1.idAttr[element])]
  IN  RemoveChildren(s2, element)

\* removeDom(cmd, remote)
removeDom(st, id) ==
  LET found == Lookup(st.map, id)
  IN  IF found # {}
      THEN remove(st, CHOOSE e \in found : TRUE)
      ELSE [st EXCEPT !.errs = Append(@, <<"id-not-found", id>>)]

\* -------------------------------------------------------------- update-dom

\* The attributes loop of update-dom for the key id: null removes the attribute.
UpdateAttributes(st, el, value) ==
  IF value = Absent THEN st
  ELSE IF value = Null THEN [st EXCEPT !.idAttr[el] = ""]
  ELSE [st EXCEPT !.idAttr[el] = value]

\* if (cmd.parent) { if (element.parentElement) element.remove();
\*                   elementMap.get(cmd.parent)?.appendChild(element) }
UpdateReparent(st, el, parentKey) ==
  IF parentKey = Absent THEN st
  ELSE LET s1 == [st EXCEPT !.kids = Detach(@, el)]
           found == Lookup(s1.map, parentKey)
       IN  IF found = {} THEN s1
           ELSE LET parent == CHOOSE p \in found : TRUE
                IN  IF AppendThrows(s1.kids, parent, el)
                    THEN [s1 EXCEPT !.threw = TRUE]
                    ELSE [s1 EXCEPT !.kids = AppendChild(@, parent, el)]

\* if (typeof cmd.textContent === "string") element.innerText = cmd.textContent
UpdateText(st, el, textContent) ==
  IF textContent = Absent THEN st ELSE SetInnerText(st, el, textContent)

\* The update-dom handler.
updateDom(st, cmd) ==
  LET found == Lookup(st.map, cmd.id)
  IN  IF found = {}
      THEN [st EXCEPT !.errs = Append(@, <<"id-not-found", cmd.id>>)]
      ELSE LET el == CHOOSE e \in found : TRUE
               s1 == UpdateAttributes(st, el, cmd.attrId)
               s2 == UpdateReparent(s1, el, cmd.parent)
               s3 == UpdateText(s2, el, cmd.textContent)
               s4 == ListenAll(s3, el, cmd.listenEvents)
               s5 == StopAll(s4, el, cmd.stopListenEvents)
           IN  IF s2.threw THEN s2 ELSE s5

\* -------------------------------------------------------------------- JSON

Digit(d) ==
  CASE d = 0 -> "0" [] d = 1 -> "1" [] d = 2 -> "2" [] d = 3 -> "3" [] d = 4 -> "4"
    [] d = 5 -> "5" [] d = 6 -> "6" [] d = 7 -> "7" [] d = 8 -> "8" [] d = 9 -> "9"

RECURSIVE NumberJson(_)
\* JSON.stringify of a natural number.
NumberJson(n) ==
  IF n < 10 THEN Digit(n) ELSE NumberJson(n \div 10) \o Digit(n % 10)

\* JSON.stringify of a string without characters to escape.
StringJson(str) == "\"" \o str \o "\""

\* JSON.stringify of a value as an array element: undefined and functions
\* become null.
ElementJson(v) ==
  CASE v[1] = "str" -> StringJson(v[2])
    [] v[1] = "bool" -> v[2]
    [] OTHER -> "null"

RECURSIVE JoinJson(_)
JoinJson(vals) ==
  IF vals = <<>> THEN ""
  ELSE IF Len(vals) = 1 THEN ElementJson(Head(vals))
  ELSE ElementJson(Head(vals)) \o "," \o JoinJson(Tail(vals))

\* JSON.stringify of an array.
ArrayJson(vals) == "[" \o JoinJson(vals) \o "]"

\* JSON.stringify({x: e.x, y: e.y})
PointJson(e) ==
  "{\"x\":" \o NumberJson(e.x) \o ",\"y\":" \o NumberJson(e.y) \o "}"

\* JSON.stringify({x, y, deltaX, deltaY, deltaZ})
WheelJson(e) ==
  "{\"x\":" \o NumberJson(e.x) \o ",\"y\":" \o NumberJson(e.y)
    \o ",\"deltaX\":" \o NumberJson(e.deltaX) \o ",\"deltaY\":" \o NumberJson(e.deltaY)
    \o ",\"deltaZ\":" \o NumberJson(e.deltaZ) \o "}"

\* ------------------------------------------------------- element members

\* tagName is the tag in upper case.
UpperTag(tag) ==
  CASE tag = "div" -> "DIV" [] tag = "span" -> "SPAN" [] tag = "input" -> "INPUT"
    [] tag = "body" -> "BODY" [] tag = "html" -> "HTML" [] OTHER -> tag

\* Member names the model's commands read or call.
DataProps == {"tagName", "id", "hidden", "onclick"}
Methods == {"click", "hasAttribute"}
Members == DataProps \cup Methods \cup {"nope"}

\* (element as any)[name]: a string, a boolean, null, a function or undefined.
Member(st, el, name) ==
  CASE name = "tagName" -> <<"str", UpperTag(st.tag[el])>>
    [] name = "id" -> <<"str", st.idAttr[el]>>
    [] name = "hidden" -> <<"bool", "false">>
    [] name = "onclick" -> <<"null">>
    [] name \in Methods -> <<"fn">>
    [] OTHER -> <<"undef">>

\* JavaScript truthiness of a member value.
Truthy(v) ==
  CASE v[1] = "str" -> v[2] # ""
    [] v[1] = "bool" -> v[2] = "true"
    [] v[1] = "fn" -> TRUE
    [] OTHER -> FALSE

\* value ?? null
OrNull(v) == IF v[1] \in {"undef", "null"} THEN <<"null">> ELSE v

\* ------------------------------------------------------- event dispatch

\* The event classes that are instances of MouseEvent: WheelEvent extends it.
IsMouseEvent(e) == e.kind \in {"mouse", "wheel"}
IsWheelEvent(e) == e.kind = "wheel"
IsInputEvent(e) == e.kind = "input"

\* The data the listener of listenEvent derives from the native event.
ListenerData(e) ==
  IF IsMouseEvent(e) THEN PointJson(e)
  ELSE IF IsWheelEvent(e) THEN WheelJson(e)
  ELSE IF IsInputEvent(e) THEN e.value
  ELSE ""

\* remote.sendMessage({subject: "dispatch:" + event, data})
listener(event, e) == [subject |-> "dispatch:" \o event, data |-> ListenerData(e)]

\* Events of these types do not bubble.
Bubbles(type) == type # "focus"

RECURSIVE PathFrom(_, _)
\* The target and its ancestors, innermost first.
PathFrom(kids, n) ==
  LET p == ParentOf(kids, n)
  IN  IF p = {} THEN <<n>> ELSE <<n>> \o PathFrom(kids, CHOOSE x \in p : TRUE)

\* The elements whose listeners an event of the type reaches.
EventPath(kids, target, type) ==
  IF Bubbles(type) THEN PathFrom(kids, target) ELSE <<target>>

RECURSIVE Repeat(_, _)
Repeat(x, n) == IF n = 0 THEN <<>> ELSE <<x>> \o Repeat(x, n - 1)

RECURSIVE RunListeners(_, _, _, _)
\* Every native listener attached for the type along the path runs once.
RunListeners(nat, path, type, e) ==
  IF path = <<>> THEN <<>>
  ELSE Repeat(listener(type, e), nat[Head(path)][type])
         \o RunListeners(nat, Tail(path), type, e)

\* The browser dispatching event e of the type at the target.
DispatchEvent(st, target, type, e) ==
  [st EXCEPT !.msgs = @ \o RunListeners(st.nat, EventPath(st.kids, target, type), type, e)]

\* The event element.click() dispatches.
ClickEvent ==
  [kind |-> "mouse", x |-> 0, y |-> 0, deltaX |-> 0, deltaY |-> 0, deltaZ |-> 0,
   value |-> Absent]

\* -------------------------------------------------- reply-bearing commands

\* JSON.stringify(element.getBoundingClientRect()) of an element without layout.
RectJson ==
  "{\"x\":0,\"y\":0,\"width\":0,\"height\":0,\"top\":0,\"right\":0,\"bottom\":0,\"left\":0}"

\* A get-bounding-rect handler that answers an unknown id with a reply as well.
getBoundingRectRepliesAlways(st, cmd) ==
  IF Lookup(st.map, cmd.id) = {}
  THEN [st EXCEPT !.errs = Append(@, <<"id-not-found", cmd.id>>),
                  !.reps = Append(@, [replyId |-> cmd.replyId, data |-> "null"])]
  ELSE [st EXCEPT !.reps = Append(@, [replyId |-> cmd.replyId, data |-> RectJson])]

\* The get-bounding-rect handler.
getBoundingRect(st, cmd) ==
  IF Lookup(st.map, cmd.id) = {}
  THEN [st EXCEPT !.errs = Append(@, <<"id-not-found", cmd.id>>)]
  ELSE [st EXCEPT !.reps = Append(@, [replyId |-> cmd.replyId, data |-> RectJson])]

\* A read that returns the values in reverse order.
ReadValuesReversed(st, el, props) ==
  [i \in 1..Len(props) |-> OrNull(Member(st, el, props[Len(props) + 1 - i]))]

\* cmd.props.map((prop) => element[prop] ?? null)
ReadValues(st, el, props) == [i \in 1..Len(props) |-> OrNull(Member(st, el, props[i]))]

\* The read-props handler.
readProps(st, cmd) ==
  LET found == Lookup(st.map, cmd.id)
  IN  IF found = {}
      THEN [st EXCEPT !.errs = Append(@, <<"id-not-found", cmd.id>>)]
      ELSE [st EXCEPT !.reps = Append(@,
              [replyId |-> cmd.replyId,
               data |-> ArrayJson(ReadValues(st, CHOOSE e \in found : TRUE, cmd.props))])]

\* method.call(element, ...args) for the methods of the model: st.val is the
\* value returned, st.threw a TypeError for a missing argument.
CallMethod(st, el, name, args) ==
  IF name = "click"
  THEN [DispatchEvent(st, el, "click", ClickEvent) EXCEPT !.val = <<"undef">>]
  ELSE IF args = <<>>
       THEN [st EXCEPT !.threw = TRUE]
       ELSE [st EXCEPT !.val =
               <<"bool", IF args[1] = "id" /\ st.idAttr[el] # "" THEN "true" ELSE "false">>]

\* An invoke-method handler that answers a missing member with an empty reply.
invokeMethodRepliesOnMissing(st, cmd) ==
  LET found == Lookup(st.map, cmd.id)
  IN  IF found = {}
      THEN [st EXCEPT !.errs = Append(@, <<"id-not-found", cmd.id>>)]
      ELSE LET el == CHOOSE e \in found : TRUE
               method == Member(st, el, cmd.methodName)
           IN  IF method[1] = "fn"
               THEN LET s1 == CallMethod(st, el, cmd.methodName, cmd.args)
                    IN  IF s1.threw THEN s1
                        ELSE [s1 EXCEPT !.reps = Append(@,
                                [replyId |-> cmd.replyId, data |-> ""])]
               ELSE [st EXCEPT !.reps = Append(@,
                       [replyId |-> cmd.replyId, data |-> ""])]

\* The invoke-method handler.
invokeMethod(st, cmd) ==
  LET found == Lookup(st.map, cmd.id)
  IN  IF found = {}
      THEN [st EXCEPT !.errs = Append(@, <<"id-not-found", cmd.id>>)]
      ELSE LET el == CHOOSE e \in found : TRUE
               method == Member(st, el, cmd.methodName)
           IN  IF Truthy(method)
               THEN IF method[1] # "fn"
                    THEN [st EXCEPT !.threw = TRUE]
                    ELSE LET s1 == CallMethod(st, el, cmd.methodName, cmd.args)
                             data == IF s1.val[1] \in {"undef", "null"}
                                     THEN "" ELSE ElementJson(s1.val)
                         IN  IF s1.threw THEN s1
                             ELSE [s1 EXCEPT !.reps = Append(@,
                                     [replyId |-> cmd.replyId, data |-> data])]
               ELSE [st EXCEPT !.errs = Append(@, <<"method-not-found", cmd.methodName>>)]

\* ------------------------------------------------------------------ actions

RECURSIVE InnerText(_, _, _)
RECURSIVE ChildrenText(_, _, _)
\* The text of the element children, in order.
ChildrenText(kids, text, seq) ==
  IF seq = <<>> THEN ""
  ELSE InnerText(kids, text, Head(seq)) \o ChildrenText(kids, text, Tail(seq))

\* Reading element.innerText: the node's own text, then its descendants'.
InnerText(kids, text, n) == text[n] \o ChildrenText(kids, text, kids[n])

\* A Map without entries.
EmptyMap == [k \in {} |-> BodyNode]

\* The handler's result becomes the state.
CommitStore(st, rec) ==
  /\ elementMap' = st.map
  /\ elementListeners' = st.tab
  /\ nativeListeners' = st.nat
  /\ idAttr' = st.idAttr
  /\ children' = st.kids
  /\ textOf' = st.text
  /\ tagOf' = st.tag
  /\ nextEl' = st.next
  /\ errors' = st.errs
  /\ replies' = st.reps
  /\ messages' = st.msgs
  /\ threw' = st.threw
  /\ declParent' = st.declParent
  /\ last' = rec

\* A handler called with its command, outside the connector's message path.
Commit(st, rec) == CommitStore(st, rec) /\ UNCHANGED <<inbox, arrived, log>>

\* A reply-bearing command carries a token no earlier command carried.
Correlate(st, replyId) ==
  /\ replyId \notin sent
  /\ sent' = sent \cup {replyId}
  /\ replyCount' =
       [r \in ReplyIds |->
          replyCount[r] + Cardinality({i \in 1..Len(st.reps) : st.reps[i].replyId = r})]

Init ==
  /\ elementMap = EmptyMap
  /\ elementListeners = [n \in Nodes |-> {}]
  /\ nativeListeners = [n \in Nodes |-> [ev \in Events |-> 0]]
  /\ idAttr = [n \in Nodes |-> ""]
  /\ children = [n \in Nodes |-> IF n = HtmlNode THEN <<BodyNode>> ELSE <<>>]
  /\ textOf = [n \in Nodes |-> ""]
  /\ tagOf = [n \in Nodes |-> IF n = HtmlNode THEN "html"
                              ELSE IF n = BodyNode THEN "body" ELSE ""]
  /\ nextEl = 1
  /\ isOpen = FALSE
  /\ errors = <<>>
  /\ replies = <<>>
  /\ messages = <<>>
  /\ threw = FALSE
  /\ last = [op |-> "init"]
  /\ declParent = [n \in Nodes |-> {}]
  /\ sent = {}
  /\ replyCount = [r \in ReplyIds |-> 0]
  /\ inbox = <<>>
  /\ arrived = 0
  /\ log = <<>>

\* handleOpen(): elementMap.set("body", document.body)
HandleOpen ==
  /\ ~isOpen
  /\ isOpen' = TRUE
  /\ Commit([Store EXCEPT !.map = MapSet(@, BodyKey, BodyNode)], [op |-> "open"])
  /\ UNCHANGED <<sent, replyCount>>

\* handleClose(): elementMap.clear()
HandleClose ==
  /\ isOpen
  /\ isOpen' = FALSE
  /\ Commit([Store EXCEPT !.map = EmptyMap], [op |-> "close"])
  /\ UNCHANGED <<sent, replyCount>>

RECURSIVE NodeCount(_)
RECURSIVE NodeCountAll(_)
NodeCountAll(cmds) ==
  IF cmds = <<>> THEN 0 ELSE NodeCount(Head(cmds)) + NodeCountAll(Tail(cmds))
\* The elements a create-dom command creates.
NodeCount(cmd) == 1 + NodeCountAll(cmd.children)

\* The create-dom handler.
CreateDom(cmd) ==
  /\ isOpen
  /\ nextEl + NodeCount(cmd) - 1 <= MaxNodes
  /\ Commit(createDom(Store, cmd),
            [op |-> "create-dom", cmd |-> cmd, el |-> nextEl,
             found |-> Lookup(elementMap, cmd.attrId)])
  /\ UNCHANGED <<isOpen, sent, replyCount>>

\* The remove-dom handler.
RemoveDom(id) ==
  /\ isOpen
  /\ Commit(removeDom(Store, id),
            [op |-> "remove-dom", id |-> id, found |-> Lookup(elementMap, id)])
  /\ UNCHANGED <<isOpen, sent, replyCount>>

\* The update-dom handler.
UpdateDom(cmd) ==
  /\ isOpen
  /\ Commit(updateDom(Store, cmd),
            [op |-> "update-dom", cmd |-> cmd, found |-> Lookup(elementMap, cmd.id)])
  /\ UNCHANGED <<isOpen, sent, replyCount>>

\* The get-bounding-rect handler.
GetBoundingRect(cmd) ==
  /\ isOpen
  /\ LET st == getBoundingRect(Store, cmd)
     IN  /\ Correlate(st, cmd.replyId)
         /\ Commit(st, [op |-> "get-bounding-rect", cmd |-> cmd,
                        found |-> Lookup(elementMap, cmd.id)])
  /\ UNCHANGED isOpen

\* The read-props handler.
ReadProps(cmd) ==
  /\ isOpen
  /\ LET st == readProps(Store, cmd)
     IN  /\ Correlate(st, cmd.replyId)
         /\ Commit(st, [op |-> "read-props", cmd |-> cmd,
                        found |-> Lookup(elementMap, cmd.id)])
  /\ UNCHANGED isOpen

\* The invoke-method handler.
InvokeMethod(cmd) ==
  /\ isOpen
  /\ LET st == invokeMethod(Store, cmd)
     IN  /\ Correlate(st, cmd.replyId)
         /\ Commit(st, [op |-> "invoke-method", cmd |-> cmd,
                        found |-> Lookup(elementMap, cmd.id)])
  /\ UNCHANGED isOpen

\* The element is in the document.
Connected(kids, n) ==
  LET path == PathFrom(kids, n) IN path[Len(path)] = HtmlNode

\* The browser dispatches a native event at an element of the document and
\* the listeners attached along its path run.
NativeEvent(target, type, e) ==
  /\ Connected(children, target)
  /\ LET st == DispatchEvent(Store, target, type, e)
     IN  /\ st.msgs # <<>>
         /\ Commit(st, [op |-> "event", target |-> target, type |-> type, e |-> e])
  /\ UNCHANGED <<isOpen, sent, replyCount>>

\* ------------------------------------------------------------ input sets

\* create-dom commands without children.
LeafCreates(attrIds, parents, texts, indeps, listens) ==
  [type : {"create-dom"}, element : Elements, attrId : attrIds, parent : parents,
   children : {<<>>}, textContent : texts, independent : indeps,
   listenEvents : listens]

\* create-dom commands nested as children: an id attribute only.
ChildCreates ==
  [type : {"create-dom"}, element : Elements, attrId : {Absent} \cup Ids,
   parent : {Absent}, children : {<<>>}, textContent : {Absent},
   independent : {FALSE}, listenEvents : {<<>>}]

\* create-dom commands with one nested child.
NestedCreates(attrIds, parents) ==
  [type : {"create-dom"}, element : Elements, attrId : attrIds, parent : parents,
   children : {<<c>> : c \in ChildCreates}, textContent : {Absent},
   independent : {FALSE}, listenEvents : {<<>>}]

UpdateCmds(ids, attrIds, parents, texts, listens, stops) ==
  [type : {"update-dom"}, id : ids, attrId : attrIds, parent : parents,
   textContent : texts, listenEvents : listens, stopListenEvents : stops]

\* Native events: one of each class at each point.
NativeEvents ==
  {[kind |-> k, x |-> p[1], y |-> p[2], deltaX |-> 1, deltaY |-> 2, deltaZ |-> 0,
    value |-> Absent] : k \in EventKinds, p \in Points}

\* -------------------------------------- the registry and the tree (Spec)

TreeCreates ==
  LeafCreates({Absent, BodyKey} \cup Ids, {Absent} \cup Ids, {Absent}, BOOLEAN, {<<>>})
    \cup NestedCreates({Absent, BodyKey} \cup Ids, {Absent} \cup Ids)

TreeUpdates ==
  UpdateCmds(Ids, {Absent, BodyKey, "b"}, {Absent} \cup Ids, {Absent}, {<<>>}, {<<>>})

Next ==
  \/ HandleOpen
  \/ HandleClose
  \/ \E cmd \in TreeCreates : CreateDom(cmd)
  \/ \E id \in Ids \cup {BodyKey} : RemoveDom(id)
  \/ \E cmd \in TreeUpdates : UpdateDom(cmd)

Spec == Init /\ [][Next]_vars

\* ------------------------------- create and remove only (SpecCreateRemove)

SubtreeCreates ==
  LeafCreates({Absent} \cup Ids, {Absent} \cup Ids, {Absent}, BOOLEAN, {<<>>})
    \cup NestedCreates(Ids, {Absent})

NextCreateRemove ==
  \/ HandleOpen
  \/ \E cmd \in SubtreeCreates : CreateDom(cmd)
  \/ \E id \in Ids \cup {BodyKey} : RemoveDom(id)

SpecCreateRemove == Init /\ [][NextCreateRemove]_vars

\* ------------------------------------------------ text content (SpecText)

TextCreates ==
  LeafCreates(Ids, {Absent} \cup Ids, {Absent, "hi"}, {FALSE}, {<<>>})

TextUpdates ==
  UpdateCmds(Ids, {Absent}, {Absent} \cup Ids, {Absent, ""},
             {<<>>, <<"click">>}, {<<>>, <<"click">>})

NextText ==
  \/ HandleOpen
  \/ \E cmd \in TextCreates : CreateDom(cmd)
  \/ \E cmd \in TextUpdates : UpdateDom(cmd)

SpecText == Init /\ [][NextText]_vars

\* ---------------------------------------- reply-bearing commands (SpecReply)

ReplyCreates ==
  LeafCreates(Ids, {Absent}, {Absent}, {FALSE}, {<<"click">>})

ReplyUpdates ==
  UpdateCmds(Ids, {Absent, "b"}, {Absent}, {Absent}, {<<>>}, {<<>>})

\* Property-name lists of read-props.
PropNames == {"tagName", "id", "click", "nope"}
PropLists == UNION {[1..n -> PropNames] : n \in 0..2}

RectCmds == [type : {"get-bounding-rect"}, id : Ids, replyId : ReplyIds]

ReadCmds ==
  [type : {"read-props"}, id : Ids, props : PropLists, replyId : ReplyIds]

InvokeCmds ==
  [type : {"invoke-method"}, id : Ids,
   methodName : {"click", "hasAttribute", "tagName", "hidden", "nope"},
   args : {<<>>, <<"id">>}, replyId : ReplyIds]

NextReply ==
  \/ HandleOpen
  \/ \E cmd \in ReplyCreates : CreateDom(cmd)
  \/ \E id \in Ids : RemoveDom(id)
  \/ \E cmd \in ReplyUpdates : UpdateDom(cmd)
  \/ \E cmd \in RectCmds : GetBoundingRect(cmd)
  \/ \E cmd \in ReadCmds : ReadProps(cmd)
  \/ \E cmd \in InvokeCmds : InvokeMethod(cmd)

SpecReply == Init /\ [][NextReply]_vars

\* ------------------------------------------------ listeners (SpecListen)

ListenCreates ==
  LeafCreates(Ids, {Absent, "a"}, {Absent}, {FALSE},
              {<<>>, <<"click", "click">>, <<"focus">>})

ListenUpdates ==
  UpdateCmds(Ids, {Absent}, {Absent}, {Absent},
             {<<>>, <<"click">>, <<"click", "focus">>}, {<<>>, <<"click">>})

ListenedEvents == {e \in NativeEvents : e.kind \in {"mouse", "other"}}

NextListen ==
  \/ HandleOpen
  \/ \E cmd \in ListenCreates : CreateDom(cmd)
  \/ \E id \in Ids : RemoveDom(id)
  \/ \E cmd \in ListenUpdates : UpdateDom(cmd)
  \/ \E target \in Nodes, type \in Events, e \in ListenedEvents :
       NativeEvent(target, type, e)

SpecListen == Init /\ [][NextListen]_vars

\* ------------------------------- open, close and teardown (SpecLifecycle)

LifeCreates ==
  LeafCreates(Ids, {Absent, "a"}, {Absent, "hi"}, {FALSE}, {<<>>, <<"click">>})

\* One event of each class, and a text-input event at an input holding "txt".
LifeEvents ==
  {e \in NativeEvents : e.x = 10}
    \cup {[kind |-> "input", x |-> 0, y |-> 0, deltaX |-> 0, deltaY |-> 0,
           deltaZ |-> 0, value |-> "txt"]}

NextLifecycle ==
  \/ HandleOpen
  \/ HandleClose
  \/ \E cmd \in LifeCreates : CreateDom(cmd)
  \/ \E id \in Ids : RemoveDom(id)
  \/ \E target \in Nodes, e \in LifeEvents : NativeEvent(target, "click", e)

SpecLifecycle == Init /\ [][NextLifecycle]_vars

\* ----------------------------------------- attachment policy (SpecAttach)

NextAttach ==
  \/ HandleOpen
  \/ \E cmd \in TreeCreates : CreateDom(cmd)
  \/ \E id \in Ids \cup {BodyKey} : RemoveDom(id)

SpecAttach == Init /\ [][NextAttach]_vars

\* ------------------------------------ the message path (SpecDispatch)

\* Frames the connector delivers in one run.
MaxFrames == 4

\* use(): the command types the addon declares a handler for.
HandlerTypes ==
  {"create-dom", "remove-dom", "update-dom", "get-bounding-rect", "read-props",
   "invoke-method"}

\* this._commandHandleMap.get(obj.type): the handler declared for the type.
HandlerFor(type) == {h \in HandlerTypes : h = type}

\* handle(cmd) of the handler declared for the command's type.
Handle(st, h, cmd) ==
  CASE h = "create-dom" -> createDom(st, cmd)
    [] h = "remove-dom" -> removeDom(st, cmd.id)
    [] h = "update-dom" -> updateDom(st, cmd)
    [] h = "get-bounding-rect" -> getBoundingRect(st, cmd)
    [] h = "read-props" -> readProps(st, cmd)
    [] h = "invoke-method" -> invokeMethod(st, cmd)

\* _handleMessage(data): the handler of the frame's type handles it, and a
\* frame without one throws.
handleMessage(st, cmd) ==
  IF HandlerFor(cmd.type) # {}
  THEN Handle(st, CHOOSE h \in HandlerFor(cmd.type) : TRUE, cmd)
  ELSE [st EXCEPT !.threw = TRUE]

\* What the log keeps of a frame handled: the handler that started and ended.
Started(n, cmd) ==
  IF HandlerFor(cmd.type) # {}
  THEN <<[ev |-> "start", n |-> n, type |-> cmd.type,
          handler |-> CHOOSE h \in HandlerFor(cmd.type) : TRUE]>>
  ELSE <<>>
Ended(n, cmd) ==
  IF HandlerFor(cmd.type) # {} THEN <<[ev |-> "end", n |-> n]>> ELSE <<>>

\* The command the controller sends from its callback for dispatch:click.
Reaction ==
  [type |-> "update-dom", id |-> "a", attrId |-> Absent, parent |-> Absent,
   textContent |-> "", listenEvents |-> <<>>, stopListenEvents |-> <<>>]

RECURSIVE Callbacks(_, _, _)
\* remote.sendMessage hands each notification to the connector, and the
\* controller's callback sends its command: a connector that delivers within
\* the call has _handleMessage run it at once, any other queues a message
\* event.
Callbacks(acc, msgs, sync) ==
  IF msgs = <<>> THEN acc
  ELSE IF acc.arrived >= MaxFrames THEN Callbacks(acc, Tail(msgs), sync)
  ELSE LET n == acc.arrived + 1
       IN  IF sync
           THEN Callbacks(
                  [acc EXCEPT !.st = handleMessage(@, Reaction),
                              !.log = @ \o Started(n, Reaction) \o Ended(n, Reaction),
                              !.arrived = n],
                  Tail(msgs), sync)
           ELSE Callbacks(
                  [acc EXCEPT !.inbox = Append(@, [n |-> n, cmd |-> Reaction]),
                              !.arrived = n],
                  Tail(msgs), sync)

\* The create-dom frames waiting in the inbox.
PendingCreates(box) ==
  Cardinality({i \in 1..Len(box) : box[i].cmd.type = "create-dom"})

\* The connector queues a message event for a frame from the controller.
Arrive(cmd) ==
  /\ isOpen
  /\ arrived < MaxFrames
  /\ cmd.type = "create-dom" => nextEl + PendingCreates(inbox) <= MaxNodes
  /\ cmd.type = "invoke-method" =>
       /\ cmd.replyId \notin sent
       /\ \A i \in 1..Len(inbox) :
            inbox[i].cmd.type = "invoke-method" => inbox[i].cmd.replyId # cmd.replyId
  /\ inbox' = Append(inbox, [n |-> arrived + 1, cmd |-> cmd])
  /\ arrived' = arrived + 1
  /\ UNCHANGED <<elementMap, elementListeners, nativeListeners, idAttr, children,
                 textOf, tagOf, nextEl, isOpen, errors, replies, messages, threw,
                 last, declParent, sent, replyCount, log>>

\* The host runs the next message event: _handleMessage handles the frame,
\* and the controller answers the notifications the handler sends.
HandleMessage(sync) ==
  /\ isOpen
  /\ inbox # <<>>
  /\ LET f == Head(inbox)
         s1 == handleMessage(Store, f.cmd)
         acc == Callbacks([st |-> s1, log |-> log \o Started(f.n, f.cmd),
                           inbox |-> Tail(inbox), arrived |-> arrived],
                          s1.msgs, sync)
     IN  /\ CommitStore(acc.st, [op |-> "message", n |-> f.n, type |-> f.cmd.type])
         /\ log' = acc.log \o Ended(f.n, f.cmd)
         /\ inbox' = acc.inbox
         /\ arrived' = acc.arrived
         /\ IF f.cmd.type = "invoke-method"
            THEN Correlate(acc.st, f.cmd.replyId)
            ELSE UNCHANGED <<sent, replyCount>>
  /\ UNCHANGED isOpen

\* A click of the user at an element of the document: the listeners run, and
\* the controller answers their notifications.
UserClick(target, sync) ==
  /\ Connected(children, target)
  /\ LET s1 == DispatchEvent(Store, target, "click", ClickEvent)
         acc == Callbacks([st |-> s1, log |-> log, inbox |-> inbox,
                           arrived |-> arrived], s1.msgs, sync)
     IN  /\ s1.msgs # <<>>
         /\ CommitStore(acc.st, [op |-> "event", target |-> target,
                                 type |-> "click", e |-> ClickEvent])
         /\ log' = acc.log
         /\ inbox' = acc.inbox
         /\ arrived' = acc.arrived
  /\ UNCHANGED <<isOpen, sent, replyCount>>

\* The frames of the controller: a listening element, a click on it through
\* invoke-method, its removal, and a frame without a type (a JSON array).
DispatchFrames ==
  LeafCreates({"a"}, {Absent}, {Absent}, {FALSE}, {<<"click">>})
    \cup [type : {"invoke-method"}, id : {"a"}, methodName : {"click"},
          args : {<<>>}, replyId : ReplyIds]
    \cup {[type |-> "remove-dom", id |-> "a"], [type |-> "<array>"]}

NextDispatch ==
  \/ HandleOpen
  \/ \E cmd \in DispatchFrames : Arrive(cmd)
  \/ \E sync \in BOOLEAN : HandleMessage(sync)
  \/ \E target \in Created, sync \in BOOLEAN : UserClick(target, sync)

SpecDispatch == Init /\ [][NextDispatch]_vars

\* ================================================================= claims

\* The element the last command's id resolved to.
Target == CHOOSE n \in last.found : TRUE

RECURSIVE DeclClosure(_)
\* The elements declared, at their creation, below an element of the set:
\* nested as children, or created with a parent that resolved into it.
DeclClosure(set) ==
  LET more == set \cup {n \in Created : declParent[n] \cap set # {}}
  IN  IF more = set THEN set ELSE DeclClosure(more)

Registered(n) == \E k \in DOMAIN elementMap : elementMap[k] = n

\* C1: after remove-dom of an id that a create-dom registered, the registry
\* holds neither that element nor any element declared below it (nested as a
\* child or created with a parent inside its subtree), and none of them has a
\* parent.
C1_RemoveEvictsDeclaredSubtree ==
  (last.op = "remove-dom" /\ last.found # {} /\ last.found \subseteq Created)
    => \A n \in DeclClosure(last.found) :
         ~Registered(n) /\ ParentOf(children, n) = {}

\* The parent the attachment policy of create-dom names for the last command.
PolicyParent ==
  IF last.cmd.parent # Absent THEN Lookup(elementMap, last.cmd.parent)
  ELSE IF ~last.cmd.independent THEN Lookup(elementMap, BodyKey)
  ELSE {}

\* C2: a create-dom whose id attribute is already registered reports exactly
\* one duplicate-id error, leaves the id mapped to the first element, and still
\* creates the new element and attaches it where the attachment policy says.
C2_DuplicateIdStillAttached ==
  (/\ last.op = "create-dom"
   /\ last.found # {}
   /\ \A i \in 1..Len(last.cmd.children) : last.cmd.children[i].attrId # last.cmd.attrId)
    => /\ Cardinality({i \in 1..Len(errors) :
                         errors[i] = <<"duplicate-id", last.cmd.attrId>>}) = 1
       /\ Lookup(elementMap, last.cmd.attrId) = last.found
       /\ nextEl > last.el
       /\ tagOf[last.el] = last.cmd.element
       /\ ParentOf(children, last.el) = PolicyParent

\* The JSON text of {x, y} for the points the model dispatches.
ExpectedPoint(e) ==
  IF e.x = 10 /\ e.y = 20 THEN "{\"x\":10,\"y\":20}"
  ELSE IF e.x = 20 /\ e.y = 10 THEN "{\"x\":20,\"y\":10}"
  ELSE "?"

\* Every notification of the last event has the subject of its type and, for
\* a mouse event, the point as payload.
NotificationsWellFormed ==
  \A i \in 1..Len(messages) :
    /\ messages[i].subject = "dispatch:" \o last.type
    /\ last.e.kind \in {"mouse", "wheel"} => messages[i].data = ExpectedPoint(last.e)

\* C3 as claimed: a native event of type T at an element listening for T
\* produces exactly one notification, with subject "dispatch:" + T and, for a
\* mouse event at (x, y), payload {x, y}.
C3_ExactlyOneNotification ==
  (last.op = "event" /\ last.type \in elementListeners[last.target])
    => Len(messages) = 1 /\ NotificationsWellFormed

\* The elements on the event's path that listen for its type.
ListeningOnPath ==
  LET path == EventPath(children, last.target, last.type)
  IN  {n \in Nodes : /\ \E i \in 1..Len(path) : path[i] = n
                     /\ last.type \in elementListeners[n]}

\* C3 amended: a native event of type T at an element listening for T
\* produces one notification for that element and one more for each ancestor
\* that listens for T when the event bubbles, however often the listening was
\* declared; each has subject "dispatch:" + T and, for a mouse event at (x, y),
\* payload {x, y}.
C3_OneNotificationPerListeningElement ==
  (last.op = "event" /\ last.type \in elementListeners[last.target])
    => /\ Len(messages) = Cardinality(ListeningOnPath)
       /\ Len(messages) >= 1
       /\ NotificationsWellFormed

\* C3 witness: a click at (10, 20) on a listening element gave the one
\* notification of the scenario.
C3_Witness ==
  /\ last.op = "event"
  /\ last.type = "click"
  /\ "click" \in elementListeners[last.target]
  /\ messages = <<[subject |-> "dispatch:click", data |-> "{\"x\":10,\"y\":20}"]>>

\* C4: update-dom on a resolvable id clears the element's text when
\* textContent is "", and leaves the text as it was when textContent is
\* omitted, whatever else the command carries.
C4_TextContentClearsOrKeeps ==
  [][(last'.op = "update-dom" /\ last'.found # {})
       => LET el == CHOOSE n \in last'.found : TRUE
          IN  /\ last'.cmd.textContent = ""
                   => InnerText(children', textOf', el) = ""
              /\ last'.cmd.textContent = Absent
                   => InnerText(children', textOf', el) = InnerText(children, textOf, el)]_vars

IdCommands ==
  {"remove-dom", "update-dom", "get-bounding-rect", "read-props", "invoke-method"}

\* C5: a remove-dom, update-dom, get-bounding-rect, read-props or
\* invoke-method whose id does not resolve sends exactly one error and no
\* reply, and changes neither the registry, the tree nor the listener table.
C5_UnknownIdOnlyReports ==
  [][(last'.op \in IdCommands /\ last'.found = {})
       => /\ Len(errors') = 1
          /\ replies' = <<>>
          /\ ~threw'
          /\ UNCHANGED <<elementMap, children, idAttr, textOf, tagOf,
                         elementListeners, nativeListeners>>]_vars

\* C5 witness: an invoke-method on an unknown id was answered by one error.
C5_Witness ==
  /\ last.op = "invoke-method"
  /\ last.found = {}
  /\ errors = <<<<"id-not-found", last.cmd.id>>>>
  /\ replies = <<>>

\* C6: invoke-method on a resolvable id whose element has no member of that
\* name reports "method not found" and sends no reply for the replyId.
C6_MissingMethodReported ==
  (/\ last.op = "invoke-method"
   /\ last.found # {}
   /\ last.cmd.methodName \notin DataProps \cup Methods)
    => /\ errors = <<<<"method-not-found", last.cmd.methodName>>>>
       /\ replies = <<>>
       /\ replyCount[last.cmd.replyId] = 0

\* C6 witness: invoke-method named a missing member of a registered element.
C6_Witness ==
  /\ last.op = "invoke-method"
  /\ last.found # {}
  /\ last.cmd.methodName = "nope"
  /\ errors = <<<<"method-not-found", "nope">>>>

\* The value of a property as the controller sees it: what the claim expects
\* of entry i (function values have no JSON text of their own).
ValueText(n, name, functionText) ==
  CASE name = "tagName" -> "\"" \o UpperTag(tagOf[n]) \o "\""
    [] name = "id" -> "\"" \o idAttr[n] \o "\""
    [] name = "hidden" -> "false"
    [] name = "onclick" -> "null"
    [] name \in Methods -> functionText
    [] OTHER -> "null"

RECURSIVE ListText(_, _, _)
ListText(n, props, functionText) ==
  IF props = <<>> THEN ""
  ELSE ValueText(n, Head(props), functionText)
         \o (IF Len(props) > 1 THEN "," ELSE "")
         \o ListText(n, Tail(props), functionText)

\* C7 as claimed: read-props on a resolvable id replies with one entry per
\* requested property, in order, each the element's value of that property,
\* and null only in place of an absent, undefined or null one.
C7_EntriesAreValues ==
  (last.op = "read-props" /\ last.found # {})
    => /\ Len(replies) = 1
       /\ replies[1].data = "[" \o ListText(Target, last.cmd.props, "function") \o "]"

\* C7 amended: read-props on a resolvable id replies with one entry per
\* requested property, in order, each the JSON text of the element's value of
\* that property, and null for a property that is absent, undefined, null or a
\* function.
C7_EntriesAreJsonValues ==
  (last.op = "read-props" /\ last.found # {})
    => /\ Len(replies) = 1
       /\ replies[1].replyId = last.cmd.replyId
       /\ replies[1].data = "[" \o ListText(Target, last.cmd.props, "null") \o "]"

\* C7 witness: the scenario's read of tagName and id of a created div.
C7_Witness ==
  /\ last.op = "read-props"
  /\ last.cmd.props = <<"tagName", "id">>
  /\ last.found # {}
  /\ replies = <<[replyId |-> last.cmd.replyId, data |-> "[\"DIV\",\"a\"]"]>>

ReplyCommands == {"get-bounding-rect", "read-props", "invoke-method"}

\* C8: with pairwise distinct replyId tokens, every reply carries the token of
\* its command, no token appears in two replies, and a command whose id
\* resolves (and, for invoke-method, whose method exists) gets exactly one
\* reply.
C8_OneCorrelatedReply ==
  last.op \in ReplyCommands
    => /\ \A i \in 1..Len(replies) : replies[i].replyId = last.cmd.replyId
       /\ \A r \in ReplyIds : replyCount[r] <= 1
       /\ (/\ last.found # {}
           /\ last.op = "invoke-method" => last.cmd.methodName \in Methods)
            => Len(replies) = 1

\* C9: every (element, event type) pair has at most one native listener, the
\* pairs with a native listener are the pairs of the listener table, and an
\* update-dom that only asks to listen for pairs already listening changes
\* neither.
C9_OneListenerPerPair ==
  /\ [](\A n \in Nodes, ev \in Events :
          /\ nativeListeners[n][ev] <= 1
          /\ nativeListeners[n][ev] = 1 <=> ev \in elementListeners[n])
  /\ [][(/\ last'.op = "update-dom"
         /\ last'.found # {}
         /\ last'.cmd.stopListenEvents = <<>>
         /\ last'.cmd.listenEvents # <<>>
         /\ \A i \in 1..Len(last'.cmd.listenEvents) :
              last'.cmd.listenEvents[i] \in elementListeners[CHOOSE n \in last'.found : TRUE])
          => UNCHANGED <<elementListeners, nativeListeners>>]_vars

\* C9 witness: listening for click was asked twice and one listener is attached.
C9_Witness ==
  /\ last.op = "create-dom"
  /\ last.cmd.listenEvents = <<"click", "click">>
  /\ nativeListeners[last.el]["click"] = 1
  /\ elementListeners[last.el] = {"click"}

\* C10: while the connector is open, "body" resolves to document.body.
C10_BodyStaysRegistered ==
  isOpen => Lookup(elementMap, BodyKey) = {BodyNode}

\* The payload each event category is to yield, for the events of the model.
ExpectedPayload(e) ==
  CASE e.kind = "wheel" ->
         "{\"x\":10,\"y\":20,\"deltaX\":1,\"deltaY\":2,\"deltaZ\":0}"
    [] e.kind = "mouse" -> ExpectedPoint(e)
    [] e.kind = "input" -> e.value
    [] OTHER -> ""

\* C11: the listener's payload follows the event's category: a wheel event
\* yields {x, y, deltaX, deltaY, deltaZ}, any other mouse event {x, y}, a
\* text-input event the input's value, and any other event an empty payload.
C11_PayloadByCategory ==
  last.op = "event"
    => \A i \in 1..Len(messages) : messages[i].data = ExpectedPayload(last.e)

\* C12: an update-dom whose parent does not resolve leaves the element where
\* it is in the tree and sends no error.
C12_UnresolvedParentIsNoOp ==
  [][(/\ last'.op = "update-dom"
      /\ last'.found # {}
      /\ last'.cmd.parent # Absent
      /\ Lookup(elementMap, last'.cmd.parent) = {})
       => children' = children /\ errors' = <<>>]_vars

\* C13: after remove-dom of a registered element, neither it nor any element
\* of the subtree removed with it has a native listener or an entry in the
\* listener table.
C13_ListenersReleasedOnRemove ==
  [][(last'.op = "remove-dom" /\ last'.found # {})
       => LET el == CHOOSE n \in last'.found : TRUE
          IN  \A n \in {el} \cup Descendants(children, el) :
                /\ elementListeners'[n] = {}
                /\ \A ev \in Events : nativeListeners'[n][ev] = 0]_vars

\* C14: after handleOpen the registry holds the root mapping; after
\* handleClose the registry and the listener table are both empty; after a
\* close followed by an open the registry holds exactly the root mapping.
C14_OpenCloseLifecycle ==
  /\ [](last.op = "open" => Lookup(elementMap, BodyKey) = {BodyNode})
  /\ [](last.op = "close" =>
          /\ DOMAIN elementMap = {}
          /\ \A n \in Nodes : elementListeners[n] = {})
  /\ [][(last.op = "close" /\ last'.op = "open")
          => DOMAIN elementMap' = {BodyKey}]_vars

\* The parent the attachment policy names for the create-dom about to run,
\* resolved in the registry the command finds.
ArrivalParent(cmd) ==
  IF cmd.parent # Absent THEN Lookup(elementMap, cmd.parent)
  ELSE IF ~cmd.independent THEN Lookup(elementMap, BodyKey)
  ELSE {}

C16_SubOperationsAllApply ==
  (last.op = "update-dom" /\ last.found # {})
    => /\ last.cmd.textContent # Absent
            => InnerText(children, textOf, Target) = last.cmd.textContent
       /\ \A i \in 1..Len(last.cmd.stopListenEvents) :
            last.cmd.stopListenEvents[i] \notin elementListeners[Target]
       /\ \A i \in 1..Len(last.cmd.listenEvents) :
            (\A j \in 1..Len(last.cmd.stopListenEvents) :
               last.cmd.stopListenEvents[j] # last.cmd.listenEvents[i])
              => last.cmd.listenEvents[i] \in elementListeners[Target]

\* C17: after remove-dom of an id that resolved to a created element, the id
\* resolves no longer, whatever commands came before.
C17_RemovedIdUnresolved ==
  (last.op = "remove-dom" /\ last.found # {} /\ last.found \subseteq Created)
    => Lookup(elementMap, last.id) = {}

\* C18: after remove-dom of a registered element, it and every element of its
\* former subtree has no parent, no element children and no text node.
C18_TeardownLeavesNothing ==
  [][(last'.op = "remove-dom" /\ last'.found # {})
       => LET el == CHOOSE n \in last'.found : TRUE
          IN  \A n \in {el} \cup Descendants(children, el) :
                /\ ParentOf(children', n) = {}
                /\ children'[n] = <<>>
                /\ textOf'[n] = ""]_vars

\* C19: no command ends in an unhandled failure: each handler runs to its
\* end, having taken effect or having sent an error.
C19_NoUnhandledFailure ==
  ~threw

\* C20: frames are handled in the order they arrive, each by the handler
\* declared for its type, and no handler starts while another is running,
\* also for the commands the controller sends from its callback for an event
\* notification: in the log every start is followed at once by its own end,
\* the starts are in arrival order, and each names the handler of the type.
C20_InOrderOneAtATime ==
  /\ \A i \in 1..Len(log) :
       log[i].ev = "start"
         => /\ log[i].handler = log[i].type
            /\ i < Len(log)
            /\ log[i + 1].ev = "end"
            /\ log[i + 1].n = log[i].n
  /\ \A i, j \in 1..Len(log) :
       (i < j /\ log[i].ev = "start" /\ log[j].ev = "start") => log[i].n < log[j].n

\* C21: remove-dom changes the registry only for the removed subtree: every
\* entry whose element lies outside it is still there afterwards and maps to
\* the same element, also when the subtree holds an element whose id
\* attribute was rejected as a duplicate of an id registered outside it.
C21_RemoveKeepsOtherEntries ==
  [][(last'.op = "remove-dom" /\ last'.found # {})
       => LET el == CHOOSE n \in last'.found : TRUE
              subtree == {el} \cup Descendants(children, el)
          IN  \A k \in DOMAIN elementMap :
                elementMap[k] \notin subtree
                  => k \in DOMAIN elementMap' /\ elementMap'[k] = elementMap[k]]_vars

\* The elements a command's text write discarded: for update-dom with a
\* textContent, the descendants the element had and has no longer; for
\* create-dom, the elements created with the new one that are not below it.
Discarded(el) ==
  IF last'.op = "update-dom"
  THEN IF last'.cmd.textContent # Absent
       THEN Descendants(children, el) \ Descendants(children', el)
       ELSE {}
  ELSE {n \in Created : n > el /\ n < nextEl'} \ Descendants(children', el)

\* C22: after a create-dom or an update-dom, no id of the registry maps to an
\* element that the command's text write discarded from the children of the
\* element written to.
C22_TextWriteOrphansNoEntry ==
  [][((last'.op = "create-dom" /\ ~threw')
        \/ (last'.op = "update-dom" /\ last'.found # {}))
       => LET el == IF last'.op = "create-dom" THEN last'.el
                    ELSE CHOOSE n \in last'.found : TRUE
          IN  \A n \in Discarded(el) :
                \A k \in DOMAIN elementMap' : elementMap'[k] # n]_vars

====
